---- MODULE Spec2Model ----
(***************************************************************************)
(* Graph partitioning, colouring and clustering algorithms of              *)
(* algorithms.py, as state machines over one weighted undirected graph     *)
(* with per-vertex scratch fields (partition_label, internal_cost,         *)
(* external_cost, level).                                                  *)
(***************************************************************************)
EXTENDS Integers, Sequences, FiniteSets, TLC

\* ------------------------------------------------------------------ bounds
MaxVertices == 4
MaxWeight == 3
MaxCalls == 2
MaxThreshold == 2
MaxK == 2
MaxIter == 2
MaxClusterings == 1
MaxDistance == 2
MaxTraversalVertices == 3
MaxMoveWeight == 1
MaxLevels == 3
Thresholds == {-1, 2}

VARIABLES
    numVertices,      \* Graph.numVertices
    weight,           \* weight[u][v]: weight of edge u-v, 0 when there is none
    partition_label,  \* Vertex.partition_label: "none" | "A" | "B"
    internal_cost,    \* Vertex.internal_cost
    external_cost,    \* Vertex.external_cost
    level,            \* Vertex.level, -1 until set
    pc,               \* position of the running call, "idle" between calls
    calls,            \* number of calls begun on this graph instance
    iter,             \* loop counter of the running refinement loop
    D_values,         \* local D_values of the running refinement loop
    prev_label,       \* the labelling the last loop iteration started from
    gains,            \* local gains of the last loop iteration, as sorted
    stack,            \* pending partition_graph calls, innermost first
    partition,        \* recursive_bisection's partition dict, in insertion order
    bfs,              \* pa_bfs: arguments and locals of the last call
    col,              \* greedyColoring: locals of the last call
    sb,               \* pa_sb: the eigenvector split on and the groups it gave
    km,               \* k_medois: arguments and locals of the last call
    scc,              \* pa_scc_kl: components left and the partition dict
    result,           \* what the last finished call returned
    history           \* results of the finished calls, oldest first

vars == <<numVertices, weight, partition_label, internal_cost, external_cost,
          level, pc, calls, iter, D_values, prev_label, gains,
          stack, partition, bfs, col, sb, km, scc, result, history>>

\* the state of the partitioning calls, and of each other algorithm
partVars == <<partition_label, internal_cost, external_cost, iter,
              D_values, prev_label, gains, stack, partition>>

\* ------------------------------------------------------------ graph model
Vertices == 0 .. (numVertices - 1)

Labels == {"none", "A", "B"}

\* Vertex.getWeight(nbr) in a graph of weights W: the weight of the edge,
\* 0 for a non-neighbour
getWeight(W, u, v) == W[u][v]

\* Vertex.getConnections(): the neighbours of u
getConnections(u) == {v \in Vertices : weight[u][v] > 0}

\* Graph.getVertex(id): whether the identifier names a vertex
getVertex(id) == id \in Vertices

Pairs(n) == {p \in (0 .. (n - 1)) \X (0 .. (n - 1)) : p[1] < p[2]}

\* a symmetric weight matrix with an empty diagonal, built by addEdge calls
SymmetricWeights(n, f) ==
    [u \in 0 .. (n - 1) |-> [v \in 0 .. (n - 1) |->
        IF u < v THEN f[<<u, v>>] ELSE IF v < u THEN f[<<v, u>>] ELSE 0]]

RECURSIVE SumOver(_, _)
SumOver(S, f) ==
    IF S = {} THEN 0
    ELSE LET x == CHOOSE y \in S : TRUE IN f[x] + SumOver(S \ {x}, f)

\* the identifiers of S in vertList (insertion = identifier) order
RECURSIVE InOrder(_)
InOrder(S) ==
    IF S = {} THEN <<>>
    ELSE LET x == CHOOSE y \in S : \A z \in S : y <= z
         IN <<x>> \o InOrder(S \ {x})

Range(s) == {s[i] : i \in 1 .. Len(s)}

\* Graph.compute_partition_cost(): weight of the edges whose ends differ in label
compute_partition_cost(lab) ==
    SumOver({p \in Pairs(numVertices) : lab[p[1]] # lab[p[2]]},
            [p \in Pairs(numVertices) |-> weight[p[1]][p[2]]])

\* Graph.compute_total_weight() of the graph of vertices S and weights W
compute_total_weight(S, W) ==
    SumOver({p \in S \X S : p[1] < p[2]},
            [p \in S \X S |-> W[p[1]][p[2]]])

\* the vertices within k hops of s
RECURSIVE Ball(_, _)
Ball(s, k) ==
    IF k = 0 THEN {s}
    ELSE LET B == Ball(s, k - 1)
         IN B \cup {v \in Vertices : \E u \in B : weight[u][v] > 0}

\* the vertices a traversal from s reaches
Reached(s) == Ball(s, numVertices)

\* Graph.find_strongly_connected_components(): with symmetric edges, the
\* connected components
find_strongly_connected_components == {Reached(v) : v \in Vertices}

\* ------------------------------------------- gain-based refinement engine
half == numVertices \div 2

\* pa_kl / pa_fm: first half labelled A, second half B
InitialLabels(lab) ==
    [v \in Vertices |->
        IF v < half THEN "A" ELSE IF v < 2 * half THEN "B" ELSE lab[v]]

\* vertex.internal_cost += weight, over the neighbours of the same label
AccumulateInternal(S, W, lab, ic) ==
    [v \in S |-> ic[v] + SumOver({u \in S : W[v][u] > 0 /\ lab[u] = lab[v]},
                                 [u \in S |-> getWeight(W, v, u)])]

\* vertex.external_cost -= weight, over the neighbours of another label
AccumulateExternal(S, W, lab, ec) ==
    [v \in S |-> ec[v] - SumOver({u \in S : W[v][u] > 0 /\ lab[u] # lab[v]},
                                 [u \in S |-> getWeight(W, v, u)])]

\* group_a / group_b: [v.id for v in vertList if v.partition_label == L]
Group(S, lab, L) == InOrder({v \in S : lab[v] = L})

\* gains.append([[a, b], gain]) for a in group_a, for b in group_b
RECURSIVE GainsFrom(_, _, _, _, _)
GainsFrom(W, ga, gb, D, k) ==
    IF k > Len(ga) * Len(gb) THEN <<>>
    ELSE LET a == ga[((k - 1) \div Len(gb)) + 1]
             b == gb[((k - 1) % Len(gb)) + 1]
         IN <<[pair |-> <<a, b>>, gain |-> D[a] + D[b] - (2 * getWeight(W, a, b))]>>
                \o GainsFrom(W, ga, gb, D, k + 1)

GainsList(W, ga, gb, D) == GainsFrom(W, ga, gb, D, 1)

\* sorted(gains, key=gain, reverse=True): descending and stable, an entry
\* goes after the entries before it in the list that have at least its gain
InsertDesc(sorted, e) ==
    LET i == Cardinality({j \in 1 .. Len(sorted) : sorted[j].gain >= e.gain})
    IN SubSeq(sorted, 1, i) \o <<e>> \o SubSeq(sorted, i + 1, Len(sorted))

RECURSIVE SortedDesc(_)
SortedDesc(g) ==
    IF g = <<>> THEN <<>>
    ELSE InsertDesc(SortedDesc(SubSeq(g, 1, Len(g) - 1)), g[Len(g)])

\* the two D_values update loops after a swap or move of pair <<a, b>>;
\* the second loop writes D_values[x], x being the last vertex of group_a
UpdateD(W, D, ga, gb, a, b) ==
    LET D1 == [v \in DOMAIN D |->
                 IF v \in Range(ga)
                 THEN D[v] + 2 * getWeight(W, v, a) - 2 * getWeight(W, v, b)
                 ELSE D[v]]
        x == ga[Len(ga)]
        extra == SumOver(Range(gb), [y \in Range(gb) |->
                            2 * getWeight(W, y, a) - 2 * getWeight(W, y, b)])
    IN IF Len(gb) = 0 THEN D1
       ELSE [D1 EXCEPT ![x] = D1[x] + extra]

NoResult == [alg |-> "none", outcome |-> "none"]

\* ------------------------------------------------------------------ pa_kl
\* pa_kl lines 116-121: the initial labelling
KlStart ==
    /\ pc = "idle" /\ calls < MaxCalls
    /\ calls' = calls + 1
    /\ partition_label' = InitialLabels(partition_label)
    /\ iter' = 0
    /\ D_values' = [v \in Vertices |-> 0]
    /\ prev_label' = InitialLabels(partition_label)
    /\ gains' = <<>>
    /\ pc' = "kl"
    /\ UNCHANGED <<bfs, col, sb, km, scc>>
    /\ UNCHANGED <<numVertices, weight, internal_cost, external_cost, level,
                   stack, partition, result, history>>

\* D_values.update({idx: external_cost + internal_cost})
DValues(ic, ec) == [v \in DOMAIN ic |-> ec[v] + ic[v]]

\* pa_kl line 153: max_gain = gains[0][1]
KlMaxGain(g) == g[1].gain

\* pa_kl line 159: pair = gains[0][0]
KlPair(g) == g[1].pair

\* a label change of the first member of the pair alone
MoveFirstLabel(lab, a, b) == [lab EXCEPT ![a] = "B"]

\* pa_kl lines 163-164: the label exchange of the winning pair
SwapLabels(lab, a, b) == [lab EXCEPT ![a] = "B", ![b] = "A"]

\* pa_kl lines 124-178: one pass of the refinement loop
KlIteration ==
    /\ pc = "kl" /\ iter < half
    /\ internal_cost' = AccumulateInternal(Vertices, weight, partition_label, internal_cost)
    /\ external_cost' = AccumulateExternal(Vertices, weight, partition_label, external_cost)
    /\ gains' = SortedDesc(GainsList(weight,
                                     Group(Vertices, partition_label, "A"),
                                     Group(Vertices, partition_label, "B"),
                                     DValues(internal_cost', external_cost')))
    /\ LET D == DValues(internal_cost', external_cost')
           group_a == Group(Vertices, partition_label, "A")
           group_b == Group(Vertices, partition_label, "B")
           max_gain == KlMaxGain(gains')
           pair == KlPair(gains')
           rest_a == SelectSeq(group_a, LAMBDA v : v # pair[1])
           rest_b == SelectSeq(group_b, LAMBDA v : v # pair[2])
       IN /\ prev_label' = partition_label
          /\ IF max_gain <= 0
             THEN /\ pc' = "kl_return"
                  /\ D_values' = D
                  /\ UNCHANGED <<partition_label, iter>>
             ELSE /\ partition_label' = SwapLabels(partition_label, pair[1], pair[2])
                  /\ D_values' = UpdateD(weight, D, rest_a, rest_b, pair[1], pair[2])
                  /\ iter' = iter + 1
                  /\ pc' = "kl"
    /\ UNCHANGED <<bfs, col, sb, km, scc>>
    /\ UNCHANGED <<numVertices, weight, level, calls, stack, partition,
                   result, history>>

\* pa_kl lines 182-194: the cut size and the two groups, after the break
\* (pc = "kl_return") or after the last pass
KlReturn ==
    /\ \/ pc = "kl_return"
       \/ pc = "kl" /\ iter >= half
    /\ LET r == [alg |-> "kl", outcome |-> "groups",
                 cutset_size |-> compute_partition_cost(partition_label),
                 group_a |-> Group(Vertices, partition_label, "A"),
                 group_b |-> Group(Vertices, partition_label, "B")]
       IN /\ result' = r
          /\ history' = Append(history, r)
    /\ pc' = "idle"
    /\ UNCHANGED <<bfs, col, sb, km, scc>>
    /\ UNCHANGED <<numVertices, weight, partition_label, internal_cost,
                   external_cost, level, calls, iter, D_values, prev_label,
                   gains, stack, partition>>

\* ------------------------------------------------------------------ pa_fm
\* pa_fm lines 236-241: the initial labelling
FmStart ==
    /\ pc = "idle" /\ calls < MaxCalls
    /\ calls' = calls + 1
    /\ partition_label' = InitialLabels(partition_label)
    /\ iter' = 0
    /\ D_values' = [v \in Vertices |-> 0]
    /\ prev_label' = InitialLabels(partition_label)
    /\ gains' = <<>>
    /\ pc' = "fm"
    /\ UNCHANGED <<bfs, col, sb, km, scc>>
    /\ UNCHANGED <<numVertices, weight, internal_cost, external_cost, level,
                   stack, partition, result, history>>

\* pa_fm line 272: min_gain = gains[-1][1]
FmMinGain(g) == g[Len(g)].gain

\* the pair of least gain, where pa_fm takes the pair of greatest gain
FmPairOfMinGain(g) == g[Len(g)].pair

\* pa_fm line 278: pair = gains[0][0]
FmPair(g) == g[1].pair

\* pa_fm lines 284-287: the move of one member of the pair
MoveLabel(lab, pair, locked_vertex) ==
    IF locked_vertex = 0
    THEN [lab EXCEPT ![pair[1]] = "B"]
    ELSE [lab EXCEPT ![pair[2]] = "A"]

\* pa_fm lines 244-302: one pass of the refinement loop;
\* locked_vertex is random.randint(0, 1)
FmIteration ==
    /\ pc = "fm" /\ iter < half
    /\ internal_cost' = AccumulateInternal(Vertices, weight, partition_label, internal_cost)
    /\ external_cost' = AccumulateExternal(Vertices, weight, partition_label, external_cost)
    /\ gains' = SortedDesc(GainsList(weight,
                                     Group(Vertices, partition_label, "A"),
                                     Group(Vertices, partition_label, "B"),
                                     DValues(internal_cost', external_cost')))
    /\ LET D == DValues(internal_cost', external_cost')
           group_a == Group(Vertices, partition_label, "A")
           group_b == Group(Vertices, partition_label, "B")
           min_gain == FmMinGain(gains')
           pair == FmPair(gains')
       IN /\ prev_label' = partition_label
          /\ IF min_gain <= 0
             THEN /\ pc' = "fm_return"
                  /\ D_values' = D
                  /\ UNCHANGED <<partition_label, iter>>
             ELSE \E locked_vertex \in {0, 1} :
                  /\ partition_label' = MoveLabel(partition_label, pair, locked_vertex)
                  /\ D_values' = UpdateD(weight, D, group_a, group_b, pair[1], pair[2])
                  /\ iter' = iter + 1
                  /\ pc' = "fm"
    /\ UNCHANGED <<bfs, col, sb, km, scc>>
    /\ UNCHANGED <<numVertices, weight, level, calls, stack, partition,
                   result, history>>

\* pa_fm lines 306-318: the cut size and the two groups, after the break
\* (pc = "fm_return") or after the last pass
FmReturn ==
    /\ \/ pc = "fm_return"
       \/ pc = "fm" /\ iter >= half
    /\ LET r == [alg |-> "fm", outcome |-> "groups",
                 cutset_size |-> compute_partition_cost(partition_label),
                 group_a |-> Group(Vertices, partition_label, "A"),
                 group_b |-> Group(Vertices, partition_label, "B")]
       IN /\ result' = r
          /\ history' = Append(history, r)
    /\ pc' = "idle"
    /\ UNCHANGED <<bfs, col, sb, km, scc>>
    /\ UNCHANGED <<numVertices, weight, partition_label, internal_cost,
                   external_cost, level, calls, iter, D_values, prev_label,
                   gains, stack, partition>>

\* ---------------------------------------------------- recursive_bisection
\* recursive_bisection's defaults: max_levels=3, min_size=1, weight_threshold=0.02
max_levels == 3
min_size == 1
weight_threshold_num == 2
weight_threshold_den == 100

\* partition[k] = v on a dict kept in insertion order
DictSet(d, k, v) ==
    IF \E i \in 1 .. Len(d) : d[i][1] = k
    THEN [i \in 1 .. Len(d) |-> IF d[i][1] = k THEN <<k, v>> ELSE d[i]]
    ELSE Append(d, <<k, v>>)

\* save_partition(graph, partition, "len(partition) % 2 == 0")
RECURSIVE SaveByParity(_, _)
SaveByParity(d, vs) ==
    IF vs = <<>> THEN d
    ELSE SaveByParity(DictSet(d, Head(vs), IF Len(d) % 2 = 0 THEN "A" ELSE "B"),
                      Tail(vs))

\* save_partition(graph, partition, "vertex in subgraph1.getVertices()", subgraph1)
RECURSIVE SaveBySubgraph(_, _, _)
SaveBySubgraph(d, vs, sub1) ==
    IF vs = <<>> THEN d
    ELSE SaveBySubgraph(DictSet(d, Head(vs), IF Head(vs) \in sub1 THEN "A" ELSE "B"),
                        Tail(vs), sub1)

\* get_subgraphs(partition): the keys labelled A, and the others
get_subgraphs(d) ==
    [group_a |-> SelectSeq([i \in 1 .. Len(d) |-> d[i][1]],
                           LAMBDA k : \E i \in 1 .. Len(d) : d[i] = <<k, "A">>),
     group_b |-> SelectSeq([i \in 1 .. Len(d) |-> d[i][1]],
                           LAMBDA k : \E i \in 1 .. Len(d) : d[i][1] = k /\ d[i][2] # "A")]

\* partition_vertices lines 461-517: the refinement loop on the graph of
\* vertices S, n passes left; err when the second D_values loop reads x
\* before the first loop bound it (group_a emptied, group_b not)
RECURSIVE PvLoop(_, _, _, _, _, _)
PvLoop(S, W, lab, ic, ec, n) ==
    IF n = 0 THEN [lab |-> lab, ic |-> ic, ec |-> ec, err |-> FALSE]
    ELSE LET ic2 == AccumulateInternal(S, W, lab, ic)
             ec2 == AccumulateExternal(S, W, lab, ec)
             group_a == Group(S, lab, "A")
             group_b == Group(S, lab, "B")
             g == SortedDesc(GainsList(W, group_a, group_b, DValues(ic2, ec2)))
         IN IF g = <<>> \/ g[1].gain <= 0
            THEN [lab |-> lab, ic |-> ic2, ec |-> ec2, err |-> FALSE]
            ELSE LET pair == g[1].pair
                     swapped == SwapLabels(lab, pair[1], pair[2])
                 IN IF Len(group_a) = 1 /\ Len(group_b) > 1
                    THEN [lab |-> swapped, ic |-> ic2, ec |-> ec2, err |-> TRUE]
                    ELSE PvLoop(S, W, swapped, ic2, ec2, n - 1)

partition_vertices(S, W, lab, ic, ec) ==
    PvLoop(S, W, lab, ic, ec, Cardinality(S) \div 2)

\* partition_vertices lines 523-535: subgraph1 holds the vertices labelled A
\* and the edges among them; subgraph2 holds every other vertex and its
\* edges to the vertices labelled B
Subgraph1Weights(W, lab, S1) == [u \in S1 |-> [v \in S1 |-> W[u][v]]]

Subgraph2Weights(W, lab, S2) ==
    [u \in S2 |-> [v \in S2 |->
        IF lab[u] = "B" \/ lab[v] = "B" THEN W[u][v] ELSE 0]]

\* balance_byWeight < weight_threshold, for total weights w1, w2 and w > 0
Balanced(w1, w2, w) ==
    (IF w1 >= w2 THEN w1 - w2 ELSE w2 - w1) * weight_threshold_den
        < weight_threshold_num * w

\* recursive_bisection lines 561-562: the top-level partition_graph call
RbStart ==
    /\ pc = "idle" /\ calls < MaxCalls
    /\ calls' = calls + 1
    /\ partition' = <<>>
    /\ stack' = <<[verts |-> Vertices, w |-> weight, lab |-> partition_label,
                   max_levels |-> max_levels, top |-> TRUE,
                   depth |-> 0, levels |-> max_levels]>>
    /\ pc' = "rb"
    /\ UNCHANGED <<bfs, col, sb, km, scc>>
    /\ UNCHANGED <<numVertices, weight, partition_label, internal_cost,
                   external_cost, level, iter, D_values, prev_label, gains,
                   result, history>>

\* recursive_bisection(graph, max_levels=m): the top-level partition_graph
\* call with a depth other than the default
RbStartLevels ==
    /\ pc = "idle" /\ calls < MaxCalls
    /\ calls' = calls + 1
    /\ partition' = <<>>
    /\ \E m \in 0 .. MaxLevels :
         stack' = <<[verts |-> Vertices, w |-> weight, lab |-> partition_label,
                     max_levels |-> m, top |-> TRUE, depth |-> 0, levels |-> m]>>
    /\ pc' = "rb"
    /\ UNCHANGED <<bfs, col, sb, km, scc>>
    /\ UNCHANGED <<numVertices, weight, partition_label, internal_cost,
                   external_cost, level, iter, D_values, prev_label, gains,
                   result, history>>

\* the depth handed to a recursive call when it should be one less
SameLevels(m) == m

\* partition_graph lines 556-557: max_levels - 1
NextLevels(m) == m - 1

\* partition_graph lines 541-543: the size floor or the depth floor
RbFloor ==
    /\ pc = "rb" /\ stack # <<>>
    /\ Cardinality(Head(stack).verts) <= min_size \/ Head(stack).max_levels = 0
    /\ partition' = SaveByParity(partition, InOrder(Head(stack).verts))
    /\ stack' = Tail(stack)
    /\ UNCHANGED <<bfs, col, sb, km, scc>>
    /\ UNCHANGED <<numVertices, weight, partition_label, internal_cost,
                   external_cost, level, pc, calls, iter, D_values, prev_label,
                   gains, result, history>>

\* partition_graph lines 545-557: bisect, then stop on balance or recurse;
\* the division by the graph's total weight fails when that weight is 0
RbBisect ==
    /\ pc = "rb" /\ stack # <<>>
    /\ ~(Cardinality(Head(stack).verts) <= min_size \/ Head(stack).max_levels = 0)
    /\ LET f == Head(stack)
           zero == [v \in f.verts |-> 0]
       IN \E r \in {partition_vertices(f.verts, f.w,
                                       IF f.top THEN partition_label ELSE f.lab,
                                       IF f.top THEN internal_cost ELSE zero,
                                       IF f.top THEN external_cost ELSE zero)} :
          LET sub1 == {v \in f.verts : r.lab[v] = "A"}
              sub2 == f.verts \ sub1
              w1 == Subgraph1Weights(f.w, r.lab, sub1)
              w2 == Subgraph2Weights(f.w, r.lab, sub2)
              total == compute_total_weight(f.verts, f.w)
              fail == r.err \/ total = 0
          IN /\ IF f.top
                THEN /\ partition_label' = r.lab
                     /\ internal_cost' = r.ic
                     /\ external_cost' = r.ec
                ELSE UNCHANGED <<partition_label, internal_cost, external_cost>>
             /\ IF fail
                THEN /\ result' = [alg |-> "rb", outcome |-> "error",
                                   error |-> IF r.err THEN "UnboundLocalError"
                                             ELSE "ZeroDivisionError"]
                     /\ history' = Append(history, result')
                     /\ pc' = "idle"
                     /\ stack' = <<>>
                     /\ UNCHANGED partition
                ELSE /\ IF Balanced(compute_total_weight(sub1, w1),
                                    compute_total_weight(sub2, w2), total)
                        THEN /\ partition' = SaveBySubgraph(partition,
                                                            InOrder(f.verts), sub1)
                             /\ stack' = Tail(stack)
                        ELSE /\ stack' =
                                  <<[verts |-> sub1, w |-> w1,
                                     lab |-> [v \in sub1 |-> r.lab[v]],
                                     max_levels |-> NextLevels(f.max_levels),
                                     top |-> FALSE,
                                     depth |-> f.depth + 1, levels |-> f.levels],
                                    [verts |-> sub2, w |-> w2,
                                     lab |-> [v \in sub2 |-> r.lab[v]],
                                     max_levels |-> NextLevels(f.max_levels),
                                     top |-> FALSE,
                                     depth |-> f.depth + 1, levels |-> f.levels]>>
                                  \o Tail(stack)
                             /\ UNCHANGED partition
                     /\ UNCHANGED <<pc, result, history>>
    /\ UNCHANGED <<bfs, col, sb, km, scc>>
    /\ UNCHANGED <<numVertices, weight, level, calls, iter, D_values, prev_label,
                   gains>>

\* recursive_bisection lines 563-566: the groups read off the partition dict
RbReturn ==
    /\ pc = "rb" /\ stack = <<>>
    /\ result' = [alg |-> "rb", outcome |-> "groups",
                  group_a |-> get_subgraphs(partition).group_a,
                  group_b |-> get_subgraphs(partition).group_b]
    /\ history' = Append(history, result')
    /\ pc' = "idle"
    /\ UNCHANGED <<bfs, col, sb, km, scc>>
    /\ UNCHANGED <<numVertices, weight, partition_label, internal_cost,
                   external_cost, level, calls, iter, D_values, prev_label,
                   gains, stack, partition>>

\* ----------------------------------------------------------------- pa_bfs
NoBfs == [called |-> FALSE, vertex_ith |-> 0, threshold |-> 0, queue |-> <<>>,
          visited |-> <<>>, path |-> <<>>, level |-> 0, L1 |-> {}, L2 |-> {},
          level_before |-> <<>>]

\* a lookup that rejects negative identifiers alone
InvalidStartNegative(id) == id < 0

\* pa_bfs lines 32-35: graph.getVertex(vertex_ith) is not a vertex
InvalidStart(id) == ~getVertex(id)

\* the orders in which an adjacency list can hold the vertices of S
Orderings(S) ==
    {s \in [1 .. Cardinality(S) -> S] :
        \A i, j \in 1 .. Cardinality(S) : i # j => s[i] # s[j]}

\* pa_bfs lines 28-57: the start vertex is looked up, and the call raises
\* ValueError when there is none; otherwise the queue holds the start vertex
BfsCall ==
    /\ pc = "idle" /\ calls < MaxCalls
    /\ calls' = calls + 1
    /\ \E vertex_ith \in -1 .. numVertices, threshold \in 0 .. MaxThreshold :
         IF InvalidStart(vertex_ith)
         THEN /\ bfs' = [NoBfs EXCEPT !.called = TRUE,
                                      !.vertex_ith = vertex_ith,
                                      !.threshold = threshold,
                                      !.level_before = level]
              /\ result' = [alg |-> "bfs", outcome |-> "error", error |-> "ValueError"]
              /\ history' = Append(history, result')
              /\ pc' = "idle"
         ELSE /\ bfs' = [called |-> TRUE,
                         vertex_ith |-> vertex_ith, threshold |-> threshold,
                         queue |-> <<vertex_ith>>,
                         visited |-> [v \in Vertices |-> v = vertex_ith],
                         path |-> <<>>, level |-> 0, L1 |-> {}, L2 |-> {},
                         level_before |-> level]
              /\ pc' = "bfs"
              /\ UNCHANGED <<result, history>>
    /\ UNCHANGED <<numVertices, weight, level, col, sb, km, scc>>
    /\ UNCHANGED partVars

\* pa_bfs lines 58-83: one pass of the while loop, the vertex at the head of
\* the queue and all its neighbours not visited yet, in adjacency order
BfsVisit ==
    /\ pc = "bfs" /\ bfs.queue # <<>>
    /\ LET cur_pos == Head(bfs.queue)
           fresh == {v \in getConnections(cur_pos) : ~bfs.visited[v]}
       IN /\ \E order \in Orderings(fresh) :
               bfs' = [bfs EXCEPT
                         !.path = Append(@, cur_pos),
                         !.queue = Tail(@) \o order,
                         !.visited = [v \in Vertices |-> @[v] \/ v \in fresh],
                         !.L1 = IF bfs.level >= bfs.threshold THEN @ ELSE @ \cup fresh,
                         !.L2 = IF bfs.level >= bfs.threshold THEN @ \cup fresh ELSE @,
                         !.level = @ + 1]
          /\ level' = [v \in Vertices |-> IF v \in fresh THEN bfs.level ELSE level[v]]
    /\ UNCHANGED <<numVertices, weight, pc, calls, col, sb, km, scc, result, history>>
    /\ UNCHANGED partVars

\* pa_bfs lines 85-87: the two groups
BfsReturn ==
    /\ pc = "bfs" /\ bfs.queue = <<>>
    /\ result' = [alg |-> "bfs", outcome |-> "groups",
                  group1 |-> bfs.L1, group2 |-> bfs.L2]
    /\ history' = Append(history, result')
    /\ pc' = "idle"
    /\ UNCHANGED <<numVertices, weight, level, calls, bfs, col, sb, km, scc>>
    /\ UNCHANGED partVars

\* --------------------------------------------------------- greedyColoring
NoColoring == [vertices |-> <<>>, pos |-> 0, color_map |-> <<>>]

\* len(vertex.getConnections())
Degree(v) == Cardinality(getConnections(v))

\* greedyColoring line 574: sorted by degree, reverse=True, stable
SortedByDegree ==
    LET Rank(v) == 1 + Cardinality({u \in Vertices : Degree(u) > Degree(v)})
                     + Cardinality({u \in Vertices : u < v /\ Degree(u) = Degree(v)})
    IN [p \in 1 .. numVertices |-> CHOOSE v \in Vertices : Rank(v) = p]

\* greedyColoring lines 580-583: the colours of the coloured neighbours
UsedColors(color_map, vertex) ==
    {color_map[n] : n \in getConnections(vertex) \cap DOMAIN color_map}

\* the least colour of range(n) that is in used, -1 when there is none
FirstUsedColor(used, n) ==
    IF \E c \in 0 .. (n - 1) : c \in used
    THEN CHOOSE c \in 0 .. (n - 1) :
            c \in used /\ \A d \in 0 .. (n - 1) : d \in used => c <= d
    ELSE -1

\* greedyColoring lines 584-587: the least colour of range(n) not in used,
\* -1 when the loop ends without one
FirstFreeColor(used, n) ==
    IF \E c \in 0 .. (n - 1) : c \notin used
    THEN CHOOSE c \in 0 .. (n - 1) :
            c \notin used /\ \A d \in 0 .. (n - 1) : d \notin used => c <= d
    ELSE -1

\* greedyColoring lines 571-574
ColorStart ==
    /\ pc = "idle" /\ calls < MaxCalls
    /\ calls' = calls + 1
    /\ col' = [vertices |-> SortedByDegree, pos |-> 1, color_map |-> <<>>]
    /\ pc' = "color"
    /\ UNCHANGED <<numVertices, weight, level, bfs, sb, km, scc, result, history>>
    /\ UNCHANGED partVars

\* greedyColoring lines 577-587: one pass of the loop over the vertices
ColorVertex ==
    /\ pc = "color" /\ col.pos <= Len(col.vertices)
    /\ LET vertex == col.vertices[col.pos]
           color == FirstFreeColor(UsedColors(col.color_map, vertex), numVertices)
       IN col' = [col EXCEPT
                    !.pos = @ + 1,
                    !.color_map = IF color >= 0 THEN @ @@ (vertex :> color) ELSE @]
    /\ UNCHANGED <<numVertices, weight, level, pc, calls, bfs, sb, km, scc, result, history>>
    /\ UNCHANGED partVars

\* greedyColoring lines 588-597: the colour map
ColorReturn ==
    /\ pc = "color" /\ col.pos > Len(col.vertices)
    /\ result' = [alg |-> "color", outcome |-> "map", color_map |-> col.color_map]
    /\ history' = Append(history, result')
    /\ pc' = "idle"
    /\ UNCHANGED <<numVertices, weight, level, calls, bfs, col, sb, km, scc>>
    /\ UNCHANGED partVars

\* ------------------------------------------------------------------ pa_sb
NoSplit == [split |-> FALSE, flipped |-> FALSE, vec |-> <<>>,
            group_a |-> <<>>, group_b |-> <<>>, prev_a |-> <<>>, prev_b |-> <<>>]

\* pa_sb line 368: partition = [val >= 0 for val in eigenvector]
SignPartition(vec) == [idx \in DOMAIN vec |-> vec[idx] >= 0]

\* pa_sb line 372: a = [idx for (idx, group_label) in ... if group_label]
IndicesA(part) == {idx \in DOMAIN part : part[idx]}

\* the indices of line 372 again, where line 373 takes the others
IndicesNotNegated(part) == {idx \in DOMAIN part : part[idx]}

\* pa_sb line 373: b = [idx for (idx, group_label) in ... if not group_label]
IndicesB(part) == {idx \in DOMAIN part : ~part[idx]}

\* pa_sb lines 375-378: the identifiers of the vertices in a, and in b
SbGroupA(vec) == InOrder({v \in Vertices : v \in IndicesA(SignPartition(vec))})
SbGroupB(vec) == InOrder({v \in Vertices : v \in IndicesB(SignPartition(vec))})

\* pa_sb lines 367-382 on the eigenvector vec of a graph of two vertices or
\* more (line 363 has no second eigenvalue to index on a smaller one)
SbSplit ==
    /\ pc = "idle" /\ calls < MaxCalls /\ numVertices >= 2
    /\ calls' = calls + 1
    /\ \E vec \in [Vertices -> {-1, 0, 1}] :
         sb' = [split |-> TRUE, flipped |-> FALSE, vec |-> vec,
                group_a |-> SbGroupA(vec), group_b |-> SbGroupB(vec),
                prev_a |-> <<>>, prev_b |-> <<>>]
    /\ result' = [alg |-> "sb", outcome |-> "groups",
                  group_a |-> sb'.group_a, group_b |-> sb'.group_b]
    /\ history' = Append(history, result')
    /\ UNCHANGED <<numVertices, weight, level, pc, bfs, col, km, scc>>
    /\ UNCHANGED partVars

\* pa_sb lines 367-382 again, on the same eigenvector with the other sign
SbFlip ==
    /\ pc = "idle" /\ calls < MaxCalls /\ sb.split /\ ~sb.flipped
    /\ calls' = calls + 1
    /\ LET vec == [idx \in DOMAIN sb.vec |-> 0 - sb.vec[idx]]
       IN sb' = [split |-> TRUE, flipped |-> TRUE, vec |-> vec,
                 group_a |-> SbGroupA(vec), group_b |-> SbGroupB(vec),
                 prev_a |-> sb.group_a, prev_b |-> sb.group_b]
    /\ result' = [alg |-> "sb", outcome |-> "groups",
                  group_a |-> sb'.group_a, group_b |-> sb'.group_b]
    /\ history' = Append(history, result')
    /\ UNCHANGED <<numVertices, weight, level, pc, bfs, col, km, scc>>
    /\ UNCHANGED partVars

\* --------------------------------------------------------------- k_medois
\* math.inf, the initial best total of every cluster and the distance between
\* vertices that no path joins: above every sum of distances of these graphs
inf == 1000000

NoClustering == [k |-> 0, thredshold |-> 0, max_iter |-> 0, sample |-> <<>>, dist |-> <<>>,
                 c_ids |-> <<>>, groups_data |-> <<>>, optimal_total_dist |-> <<>>,
                 has_converged |-> FALSE, it |-> 0]

Min(S) == CHOOSE x \in S : \A y \in S : x <= y

\* the length of the shortest path from u to v of at most k edges, inf if none
RECURSIVE ShortestWithin(_, _, _)
ShortestWithin(u, v, k) ==
    IF u = v THEN 0
    ELSE IF k = 0 THEN inf
    ELSE Min({inf} \cup {weight[u][x] + ShortestWithin(x, v, k - 1) : x \in getConnections(u)})

\* Graph.get_edge_weight_bfs: the shortest weighted path length between two
\* vertices (the distance oracle)
get_edge_weight_bfs(u, v) == ShortestWithin(u, v, numVertices - 1)

Connected == \A u, v \in Vertices : get_edge_weight_bfs(u, v) # inf

\* np.argmin: the first position of the smallest element
ArgMin(arr) == Min({i \in 1 .. Len(arr) : \A j \in 1 .. Len(arr) : arr[i] <= arr[j]})

\* get_closest_centroid lines 600-606: position of the closest centroid, and
\* its distance
get_closest_centroid(dist, node, centroids) ==
    LET dist_arr == [i \in 1 .. Len(centroids) |-> dist[node][centroids[i]]]
    IN [c |-> ArgMin(dist_arr), min_c |-> dist_arr[ArgMin(dist_arr)]]

\* recompute_new_centroid lines 609-612: the first member of samples with the
\* smallest sum of distances to the members
recompute_new_centroid(dist, samples) ==
    LET dist_toOthers == [i \in 1 .. Len(samples) |->
                             SumOver(Range(samples), [o \in Range(samples) |-> dist[samples[i]][o]])]
    IN samples[ArgMin(dist_toOthers)]

\* update_centroids line 621: d = sum(abs(new_total[i]) / old_total[i]) as the
\* fraction num / den; a finite total over inf is 0.0, a zero old total raises
RECURSIVE RelativeChange(_, _, _)
RelativeChange(new_total, old_total, i) ==
    IF i = 0 THEN [num |-> 0, den |-> 1, err |-> FALSE]
    ELSE LET r == RelativeChange(new_total, old_total, i - 1)
         IN IF old_total[i] = inf THEN r
            ELSE IF old_total[i] = 0 THEN [r EXCEPT !.err = TRUE]
            ELSE [num |-> r.num * old_total[i] + new_total[i] * r.den,
                  den |-> r.den * old_total[i], err |-> r.err]

\* update_centroids lines 615-628
update_centroids(c_ids, cur_centroids, thredshold, total_dist, optimal_total_dist) ==
    LET d == RelativeChange(total_dist, optimal_total_dist, Len(optimal_total_dist))
    IN IF d.err
       THEN [err |-> TRUE, has_converged |-> FALSE, c_ids |-> c_ids, result |-> optimal_total_dist]
       ELSE IF d.num > thredshold * d.den
       THEN [err |-> FALSE, has_converged |-> FALSE, c_ids |-> cur_centroids,
             result |-> optimal_total_dist]
       ELSE [err |-> FALSE, has_converged |-> TRUE, c_ids |-> c_ids, result |-> total_dist]

\* k_medois lines 645-650: the vertices whose closest centroid is the i-th
Samples(dist, c_ids, i) ==
    InOrder({v_id \in Vertices : get_closest_centroid(dist, v_id, c_ids).c = i})

\* k_medois line 655: the sum of the distances of the i-th cluster's members
\* to their centroid
TotalDist(dist, c_ids, i) ==
    SumOver(Range(Samples(dist, c_ids, i)),
            [v_id \in Vertices |-> get_closest_centroid(dist, v_id, c_ids).min_c])

\* random.sample(graph.getVertices(), k): k distinct vertices in any order
SamplesOf(k) == {s \in [1 .. k -> Vertices] : \A i, j \in 1 .. k : s[i] = s[j] => i = j}

\* k_medois lines 631-637; random.sample raises when k exceeds the population
KmStart ==
    /\ pc = "idle" /\ calls < MaxClusterings
    /\ calls' = calls + 1
    /\ \E dist \in {[u \in Vertices |-> [v \in Vertices |-> get_edge_weight_bfs(u, v)]]} :
       \E k \in 1 .. MaxK, thredshold \in Thresholds, max_iter \in 1 .. MaxIter :
         IF k > numVertices
         THEN /\ result' = [alg |-> "km", outcome |-> "error", error |-> "ValueError"]
              /\ history' = Append(history, result')
              /\ UNCHANGED <<pc, km>>
         ELSE /\ \E sample \in SamplesOf(k) :
                   km' = [k |-> k, thredshold |-> thredshold, max_iter |-> max_iter,
                          sample |-> sample, dist |-> dist, c_ids |-> sample,
                          groups_data |-> [i \in 1 .. k |-> <<>>],
                          optimal_total_dist |-> [i \in 1 .. k |-> inf],
                          has_converged |-> FALSE, it |-> 0]
              /\ pc' = "km"
              /\ UNCHANGED <<result, history>>
    /\ UNCHANGED <<numVertices, weight, level, bfs, col, sb, scc>>
    /\ UNCHANGED partVars

\* k_medois lines 639-662: one pass of the loop
KmIteration ==
    /\ pc = "km" /\ km.it < km.max_iter
    /\ \E dist \in {km.dist} :
       \E groups \in {[i \in 1 .. km.k |-> Samples(dist, km.c_ids, i)]} :
         IF \E i \in 1 .. km.k : groups[i] = <<>>
         THEN /\ result' = [alg |-> "km", outcome |-> "error", error |-> "ValueError"]
              /\ history' = Append(history, result')
              /\ pc' = "idle"
              /\ km' = [km EXCEPT !.it = @ + 1]
         ELSE LET cur_centroids == [i \in 1 .. km.k |-> recompute_new_centroid(dist, groups[i])]
                  total_dist == [i \in 1 .. km.k |-> TotalDist(dist, km.c_ids, i)]
                  upd == update_centroids(km.c_ids, cur_centroids, km.thredshold,
                                          total_dist, km.optimal_total_dist)
              IN IF upd.err
                 THEN /\ result' = [alg |-> "km", outcome |-> "error",
                                    error |-> "ZeroDivisionError"]
                      /\ history' = Append(history, result')
                      /\ pc' = "idle"
                      /\ km' = [km EXCEPT !.it = @ + 1]
                 ELSE /\ km' = [km EXCEPT !.it = @ + 1,
                                          !.groups_data = groups,
                                          !.has_converged = upd.has_converged,
                                          !.c_ids = upd.c_ids,
                                          !.optimal_total_dist = upd.result]
                      /\ pc' = IF upd.has_converged THEN "km_return" ELSE "km"
                      /\ UNCHANGED <<result, history>>
    /\ UNCHANGED <<numVertices, weight, level, calls, bfs, col, sb, scc>>
    /\ UNCHANGED partVars

\* k_medois lines 664-666
KmReturn ==
    /\ pc = "km_return" \/ (pc = "km" /\ km.it >= km.max_iter)
    /\ result' = [alg |-> "km", outcome |-> "clusters",
                  c_ids |-> km.c_ids, groups_data |-> km.groups_data]
    /\ history' = Append(history, result')
    /\ pc' = "idle"
    /\ UNCHANGED <<numVertices, weight, level, calls, bfs, col, sb, km, scc>>
    /\ UNCHANGED partVars


\* -------------------------------------------------------------- pa_scc_kl
NoComponents == [queue |-> <<>>, done |-> <<>>, partition_1 |-> <<>>, partition_2 |-> <<>>]

\* pa_scc_kl line 394: abs(len(c) - numVertices / 2), doubled to stay integral
ComponentWeight(c) ==
    IF 2 * Cardinality(c) >= numVertices
    THEN 2 * Cardinality(c) - numVertices
    ELSE numVertices - 2 * Cardinality(c)

\* the first identifier of a component listed in identifier order
First(c) == CHOOSE x \in c : \A y \in c : x <= y

\* pa_scc_kl line 397: sorted(zip(weights, scc_lst), reverse=True), the
\* heaviest component first and among equal weights the greater list first
SortedComponents ==
    LET comps == find_strongly_connected_components
        Before(d, c) == \/ ComponentWeight(d) > ComponentWeight(c)
                        \/ ComponentWeight(d) = ComponentWeight(c) /\ First(d) > First(c)
        Rank(c) == 1 + Cardinality({d \in comps : Before(d, c)})
    IN [p \in 1 .. Cardinality(comps) |-> CHOOSE c \in comps : Rank(c) = p]

\* pa_scc_kl lines 407-411: the subgraph holds the component's vertices and
\* their neighbours outside the component
SccSubgraphVertices(c) ==
    c \cup {v \in Vertices : v \notin c /\ \E u \in c : weight[u][v] > 0}

\* pa_scc_kl lines 409-412: the only edges added are those from a vertex of
\* the component to a neighbour outside it
SccSubgraphWeights(c) ==
    [u \in SccSubgraphVertices(c) |-> [v \in SccSubgraphVertices(c) |->
        IF (u \in c) # (v \in c) THEN weight[u][v] ELSE 0]]

\* pa_kl lines 116-119 on a graph whose identifiers are S: vertList[ind] or
\* vertList[ind + half] raises KeyError when the identifier is not in S
KlKeyError(S) ==
    \E ind \in 0 .. ((Cardinality(S) \div 2) - 1) :
        ind \notin S \/ (ind + (Cardinality(S) \div 2)) \notin S

\* pa_kl lines 116-119 on a fresh graph whose identifiers are S
SubgraphInitialLabels(S) ==
    [v \in S |-> IF v < Cardinality(S) \div 2 THEN "A"
                 ELSE IF v < 2 * (Cardinality(S) \div 2) THEN "B" ELSE "none"]

\* pa_kl lines 124-178 on the graph of vertices S and weights W, n passes left
RECURSIVE KlLoop(_, _, _, _, _, _)
KlLoop(S, W, lab, ic, ec, n) ==
    IF n = 0 THEN lab
    ELSE LET ic2 == AccumulateInternal(S, W, lab, ic)
             ec2 == AccumulateExternal(S, W, lab, ec)
             g == SortedDesc(GainsList(W, Group(S, lab, "A"), Group(S, lab, "B"),
                                       DValues(ic2, ec2)))
         IN IF KlMaxGain(g) <= 0 THEN lab
            ELSE KlLoop(S, W, SwapLabels(lab, KlPair(g)[1], KlPair(g)[2]), ic2, ec2, n - 1)

\* pa_kl lines 114-194 on a fresh graph of vertices S and weights W
SubgraphKl(S, W) ==
    LET lab == KlLoop(S, W, SubgraphInitialLabels(S), [v \in S |-> 0], [v \in S |-> 0],
                      Cardinality(S) \div 2)
    IN [group_a |-> Group(S, lab, "A"), group_b |-> Group(S, lab, "B")]

\* pa_scc_kl lines 390-400: the components, heaviest first
SccStart ==
    /\ pc = "idle" /\ calls < MaxCalls
    /\ calls' = calls + 1
    /\ scc' = [queue |-> SortedComponents, done |-> <<>>,
               partition_1 |-> <<>>, partition_2 |-> <<>>]
    /\ pc' = "scc"
    /\ UNCHANGED <<numVertices, weight, level, bfs, col, sb, km, result, history>>
    /\ UNCHANGED partVars

\* pa_scc_kl lines 403-422: one pass of the loop over the components, the
\* subgraph of the component bisected by pa_kl
SccComponent ==
    /\ pc = "scc" /\ scc.queue # <<>>
    /\ LET component == Head(scc.queue)
           S == SccSubgraphVertices(component)
       IN IF KlKeyError(S)
          THEN /\ result' = [alg |-> "scc", outcome |-> "error", error |-> "KeyError"]
               /\ history' = Append(history, result')
               /\ pc' = "idle"
               /\ scc' = [scc EXCEPT !.queue = <<>>]
          ELSE /\ \E r \in {SubgraphKl(S, SccSubgraphWeights(component))} :
                    scc' = [queue |-> Tail(scc.queue),
                            done |-> Append(scc.done, component),
                            partition_1 |-> Append(scc.partition_1, r.group_a),
                            partition_2 |-> Append(scc.partition_2, r.group_b)]
               /\ UNCHANGED <<pc, result, history>>
    /\ UNCHANGED <<numVertices, weight, level, calls, bfs, col, sb, km>>
    /\ UNCHANGED partVars

\* pa_scc_kl line 424: the partition dict
SccReturn ==
    /\ pc = "scc" /\ scc.queue = <<>>
    /\ result' = [alg |-> "scc", outcome |-> "partition", components |-> scc.done,
                  partition_1 |-> scc.partition_1, partition_2 |-> scc.partition_2]
    /\ history' = Append(history, result')
    /\ pc' = "idle"
    /\ UNCHANGED <<numVertices, weight, level, calls, bfs, col, sb, km, scc>>
    /\ UNCHANGED partVars

\* ------------------------------------------------------------------ graphs
\* a freshly built graph of n vertices 0..n-1: scratch fields at their defaults
FreshGraph(n, f) ==
    /\ numVertices = n
    /\ weight = SymmetricWeights(n, f)
    /\ partition_label = [v \in 0 .. (n - 1) |-> "none"]
    /\ internal_cost = [v \in 0 .. (n - 1) |-> 0]
    /\ external_cost = [v \in 0 .. (n - 1) |-> 0]
    /\ level = [v \in 0 .. (n - 1) |-> -1]

Idle ==
    /\ pc = "idle"
    /\ calls = 0
    /\ iter = 0
    /\ D_values = <<>>
    /\ prev_label = partition_label
    /\ gains = <<>>
    /\ stack = <<>>
    /\ partition = <<>>
    /\ bfs = NoBfs
    /\ col = NoColoring
    /\ sb = NoSplit
    /\ km = NoClustering
    /\ scc = NoComponents
    /\ result = NoResult
    /\ history = <<>>

\* the partitioning calls on a weighted graph
Init ==
    /\ \E n \in 0 .. MaxVertices :
         \E f \in [Pairs(n) -> 0 .. MaxWeight] : FreshGraph(n, f)
    /\ Idle

\* the calls that read the adjacency alone, on a graph of unit weights
InitAdjacency ==
    /\ \E n \in 0 .. MaxVertices :
         \E f \in [Pairs(n) -> 0 .. 1] : FreshGraph(n, f)
    /\ Idle

\* the traversal and the sign split, on a graph of unit weights
InitTraversal ==
    /\ \E n \in 0 .. MaxTraversalVertices :
         \E f \in [Pairs(n) -> 0 .. 1] : FreshGraph(n, f)
    /\ Idle

\* the single-move refinement, on a graph of small weights
InitMove ==
    /\ \E n \in 0 .. MaxVertices :
         \E f \in [Pairs(n) -> 0 .. MaxMoveWeight] : FreshGraph(n, f)
    /\ Idle

Next ==
    \/ KlStart
    \/ KlIteration
    \/ KlReturn
    \/ FmStart
    \/ FmIteration
    \/ FmReturn
    \/ RbStart
    \/ RbFloor
    \/ RbBisect
    \/ RbReturn

Spec == Init /\ [][Next]_vars

NextBfs ==
    \/ BfsCall
    \/ BfsVisit
    \/ BfsReturn

SpecBfs == InitTraversal /\ [][NextBfs]_vars

NextColor ==
    \/ ColorStart
    \/ ColorVertex
    \/ ColorReturn

SpecColor == InitAdjacency /\ [][NextColor]_vars

\* connected weighted graphs
InitConnected ==
    /\ \E n \in 0 .. MaxVertices :
         \E f \in [Pairs(n) -> 0 .. MaxDistance] : FreshGraph(n, f)
    /\ Idle
    /\ Connected

NextKm ==
    \/ KmStart
    \/ KmIteration
    \/ KmReturn

SpecKm == InitConnected /\ [][NextKm]_vars

NextFm ==
    \/ FmStart
    \/ FmIteration
    \/ FmReturn

SpecFm == InitMove /\ [][NextFm]_vars

NextScc ==
    \/ SccStart
    \/ SccComponent
    \/ SccReturn

SpecScc == InitAdjacency /\ [][NextScc]_vars

\* the bisection after the single-move refinement, on a small weighted graph
InitBisect ==
    /\ \E n \in 0 .. MaxTraversalVertices :
         \E f \in [Pairs(n) -> 0 .. MaxMoveWeight] : FreshGraph(n, f)
    /\ Idle

NextRb ==
    \/ FmStart
    \/ FmIteration
    \/ FmReturn
    \/ RbStartLevels
    \/ RbFloor
    \/ RbBisect
    \/ RbReturn

SpecRb == InitBisect /\ [][NextRb]_vars

\* pa_kl, on a graph that earlier pa_kl and pa_fm calls have labelled
NextKl ==
    \/ KlStart
    \/ KlIteration
    \/ KlReturn
    \/ FmStart
    \/ FmIteration
    \/ FmReturn

SpecKl == InitAdjacency /\ [][NextKl]_vars

NextSb ==
    \/ SbSplit
    \/ SbFlip

SpecSb == InitTraversal /\ [][NextSb]_vars

\* ------------------------------------------------------------------ claims
InKl == pc \in {"kl", "kl_return"}

\* the vertices whose label the last loop iteration changed
Moved == {v \in Vertices : prev_label[v] # partition_label[v]}

\* how often v occurs in the list s
Occurrences(s, v) == Cardinality({i \in 1 .. Len(s) : s[i] = v})

\* every vertex occurs exactly once across the two lists, which hold nothing else
ExactCover(a, b) ==
    /\ \A v \in Vertices : Occurrences(a, v) + Occurrences(b, v) = 1
    /\ Len(a) + Len(b) = numVertices

\* C1: when pa_kl or pa_fm returns, every vertex is in exactly one of group A
\* and group B, and |A| + |B| = numVertices
C1_EveryVertexInOneGroup ==
    result.alg \in {"kl", "fm"} => ExactCover(result.group_a, result.group_b)

\* C2: in pa_kl the cut weight of the labelling after a swap is at most the
\* cut weight of the labelling before that swap
C2_CutNeverIncreases ==
    (InKl /\ Moved # {})
        => compute_partition_cost(partition_label) <= compute_partition_cost(prev_label)

\* C3: two pa_kl calls in succession on one graph instance return the same
\* cut cost and the same group A and group B lists
C3_SecondRunSameResult ==
    \A i \in 1 .. (Len(history) - 1) :
        (history[i].alg = "kl" /\ history[i + 1].alg = "kl")
            => history[i + 1] = history[i]

\* C9: recursive_bisection with the default parameters returns group lists in
\* which every vertex of the graph occurs exactly once
C9_BisectionCoversEveryVertex ==
    result.alg = "rb"
        => /\ result.outcome = "groups"
           /\ ExactCover(result.group_a, result.group_b)

\* the gains of the cross pairs of the last pass
GainValues == {gains[i].gain : i \in 1 .. Len(gains)}
MinGainValue == CHOOSE m \in GainValues : \A x \in GainValues : m <= x
MaxGainValue == CHOOSE m \in GainValues : \A x \in GainValues : m >= x

\* the last pass moved exactly one vertex, a member of a cross pair of gain g:
\* its A-side member to B or its B-side member to A
MovedMemberOfPairWithGain(g) ==
    \E i \in 1 .. Len(gains) :
        /\ gains[i].gain = g
        /\ \/ Moved = {gains[i].pair[1]} /\ partition_label[gains[i].pair[1]] = "B"
           \/ Moved = {gains[i].pair[2]} /\ partition_label[gains[i].pair[2]] = "A"

FmPassed == pc = "fm" /\ gains # <<>>
FmStopped == pc = "fm_return"

BfsReturned == pc = "idle" /\ result.alg = "bfs" /\ result.outcome = "groups"

\* C4: pa_bfs returns as group1 the vertices at breadth-first depth <= L from
\* the start and as group2 the reached vertices at depth > L
C4_GroupsAreDepthSets ==
    BfsReturned
        => /\ result.group1 = Ball(bfs.vertex_ith, bfs.threshold)
           /\ result.group2 = Reached(bfs.vertex_ith) \ Ball(bfs.vertex_ith, bfs.threshold)

\* C5: pa_bfs called with an identifier that is no vertex ends in an error
\* before the traversal begins, and no vertex's level has changed
C5_InvalidStartRaises ==
    (bfs.called /\ bfs.vertex_ith \notin Vertices)
        => /\ pc = "idle"
           /\ result = [alg |-> "bfs", outcome |-> "error", error |-> "ValueError"]
           /\ bfs.path = <<>> /\ bfs.queue = <<>> /\ bfs.visited = <<>>
           /\ level = bfs.level_before

\* an invalid start after a traversal that left levels behind
C5_Witness ==
    /\ calls = 2
    /\ bfs.vertex_ith = numVertices
    /\ result.outcome = "error"
    /\ \E v \in Vertices : level[v] >= 0

\* C6: greedyColoring returns a colour map that colours every vertex and
\* gives no two adjacent vertices the same colour
C6_ProperColouring ==
    result.alg = "color"
        => /\ DOMAIN result.color_map = Vertices
           /\ \A u, v \in Vertices :
                 weight[u][v] > 0 => result.color_map[u] # result.color_map[v]

\* a colouring returned for a graph that needs three colours at least
C6_Witness ==
    /\ result.alg = "color"
    /\ \E u, v, w \in Vertices : weight[u][v] > 0 /\ weight[v][w] > 0 /\ weight[u][w] > 0
    /\ Cardinality({result.color_map[v] : v \in Vertices}) >= 3

\* the edges with one end in each of the two groups
CutEdges(a, b) ==
    {p \in Pairs(numVertices) :
        /\ weight[p[1]][p[2]] > 0
        /\ \/ p[1] \in Range(a) /\ p[2] \in Range(b)
           \/ p[1] \in Range(b) /\ p[2] \in Range(a)}

GroupsExchanged ==
    /\ sb.group_a = sb.prev_b
    /\ sb.group_b = sb.prev_a
    /\ CutEdges(sb.group_a, sb.group_b) = CutEdges(sb.prev_a, sb.prev_b)

\* C8 as stated: for every vector v, zero components included, the split on
\* -v exchanges groups A and B and leaves the set of cut edges unchanged
C8_FlipExchangesGroups == sb.flipped => GroupsExchanged

\* C8 amended: for every vector v with no zero component, the split on -v
\* exchanges groups A and B and leaves the set of cut edges unchanged
C8_FlipExchangesGroupsNoZero ==
    (sb.flipped /\ \A idx \in DOMAIN sb.vec : sb.vec[idx] # 0) => GroupsExchanged

\* a flipped split of a vector without zeros that cuts an edge
C8_Witness ==
    /\ sb.flipped
    /\ \A idx \in DOMAIN sb.vec : sb.vec[idx] # 0
    /\ sb.group_a # <<>> /\ sb.group_b # <<>>
    /\ CutEdges(sb.group_a, sb.group_b) # {}

\* the sum of the graph distances from c to every vertex
DistanceSum(c) == SumOver(Vertices, [v \in Vertices |-> get_edge_weight_bfs(c, v)])

KmReturnedSingle == pc = "idle" /\ result.alg = "km" /\ km.k = 1

\* C7 as stated: for k = 1 on a connected graph, whatever the sample,
\* k_medois returns one cluster holding every vertex and a medoid that
\* minimises the sum of graph distances to all vertices
C7_SingleClusterMedoidIsMedian ==
    (KmReturnedSingle /\ Connected /\ numVertices >= 1) =>
        /\ result.outcome = "clusters"
        /\ Len(result.groups_data) = 1
        /\ result.groups_data[1] = InOrder(Vertices)
        /\ \A u \in Vertices : DistanceSum(result.c_ids[1]) <= DistanceSum(u)

\* the first pass of the first pa_kl call on a fresh graph has computed its gains
KlFirstPassDone ==
    /\ calls = 1 /\ gains # <<>>
    /\ \/ pc = "kl" /\ iter = 1
       \/ pc = "kl_return" /\ iter = 0

\* C11: in the first iteration of pa_kl, accumulators starting at zero, the
\* gain computed for every cross pair (a, b) equals the cut weight before
\* minus the cut weight after swapping the labels of a and b
C11_GainIsCutReduction ==
    KlFirstPassDone =>
        \A i \in 1 .. Len(gains) :
            compute_partition_cost(prev_label)
              - compute_partition_cost(SwapLabels(prev_label, gains[i].pair[1], gains[i].pair[2]))
                = gains[i].gain

\* C12: pa_scc_kl returns one group A list and one group B list per
\* component, and every vertex of a component occurs exactly once across
\* the two lists of that component
C12_ComponentsBisected ==
    result.alg = "scc" =>
        /\ result.outcome = "partition"
        /\ Len(result.components) = Cardinality(find_strongly_connected_components)
        /\ Len(result.partition_1) = Len(result.components)
        /\ Len(result.partition_2) = Len(result.components)
        /\ \A i \in 1 .. Len(result.components) :
              \A v \in result.components[i] :
                 Occurrences(result.partition_1[i], v)
                    + Occurrences(result.partition_2[i], v) = 1

\* every pending partition_graph call is nested at most as deep as the
\* top-level max_levels, and holds that max_levels less its depth
DepthWithinLevels ==
    \A i \in 1 .. Len(stack) :
        /\ stack[i].depth <= stack[i].levels
        /\ stack[i].max_levels = stack[i].levels - stack[i].depth

\* the partition_graph calls a pending call can still lead to, itself
\* included: the calls of a full binary tree as deep as its max_levels
CallsBelow(f) == 2 ^ (f.max_levels + 1) - 1

\* the steps recursive_bisection has left at most: the calls its pending
\* calls can lead to, and its return
StepsLeft ==
    (IF pc = "rb" THEN 1 ELSE 0)
        + SumOver(1 .. Len(stack), [i \in 1 .. Len(stack) |-> CallsBelow(stack[i])])

RbProgress == pc = "rb" => StepsLeft' < StepsLeft /\ StepsLeft' >= 0

\* C13: for every max_levels >= 0 no chain of nested partition_graph calls is
\* longer than max_levels, each nested call holding max_levels less its
\* depth, and the top-level call comes to an end: every step of it lowers
\* a count of the steps left that never drops below zero
C13_BisectionDepthBounded ==
    /\ []DepthWithinLevels
    /\ [][RbProgress]_vars

\* a call nested as deep as the top-level max_levels allows, below the top
C13_Witness ==
    /\ pc = "rb" /\ stack # <<>>
    /\ Head(stack).levels >= 2
    /\ Head(stack).depth = Head(stack).levels
    /\ Cardinality(Head(stack).verts) > min_size

\* a pass of the k_medois loop that ran to its end
KmPassed ==
    /\ pc = "km" /\ pc' \in {"km", "km_return"}
    /\ km'.it = km.it + 1

\* the summed relative change of the pass that starts in this state
SummedChange ==
    RelativeChange([i \in 1 .. km.k |-> TotalDist(km.dist, km.c_ids, i)],
                   km.optimal_total_dist, km.k)

\* C14: k_medois leaves its loop before max_iter only after a pass whose
\* summed relative change is below the threshold, and every other pass keeps
\* the previous best totals and the previous medoids and goes on
C14_StopsBelowThresholdElseKeeps ==
    [][KmPassed =>
          /\ pc' = "km_return" =>
                 SummedChange.num < km.thredshold * SummedChange.den
          /\ pc' = "km" =>
                 /\ km'.optimal_total_dist = km.optimal_total_dist
                 /\ km'.c_ids = km.c_ids]_vars

\* a pass of pa_kl's loop has just exchanged two labels
KlSwapped == pc = "kl" /\ iter >= 1

\* C15: in pa_kl, after the initial labelling and after every pass of the
\* loop, numVertices // 2 vertices are labelled A and as many B, and a pass
\* that swaps turns one A vertex into B, one B vertex into A and changes no
\* other label
C15_KlKeepsBalance ==
    InKl =>
        /\ Cardinality({v \in Vertices : partition_label[v] = "A"}) = half
        /\ Cardinality({v \in Vertices : partition_label[v] = "B"}) = half
        /\ KlSwapped =>
               \E a, b \in Vertices :
                  /\ Moved = {a, b}
                  /\ prev_label[a] = "A" /\ partition_label[a] = "B"
                  /\ prev_label[b] = "B" /\ partition_label[b] = "A"

\* the second pass of a pa_kl call has swapped, on a graph that an earlier
\* call left labelled
C15_Witness ==
    /\ KlSwapped /\ iter = 2
    /\ calls >= 2

====
